---- MODULE Spec2Model ----
(***************************************************************************)
(* A model of the Mega Everdrive Pro serial driver (src/src/lib.rs).       *)
(*                                                                         *)
(* The driver is a sequential program.  Every function of the driver is an *)
(* operator that takes the driver-and-world record d and yields the record *)
(* after the call:                                                         *)
(*   d.serial   the driver's current connection (an index into d.conns)    *)
(*   d.conns    every connection the Provider has handed out so far        *)
(*   d.factory  the Transport Provider                                     *)
(*   d.log      the wire events of the running operation, oldest first     *)
(*   d.err      the pending anyhow error (kind "none": no error)           *)
(*   d.ret      the value of the last call that returned Ok(value)         *)
(*   d.exit     set_mode's reconnect loop has been left by `return`        *)
(* Rust's `?` is Try: the rest of a function runs on the result of a call  *)
(* that did not fail, and a failure is the result of the function.         *)
(*                                                                         *)
(* A connection's incoming bytes are a sequence of bursts.  A read returns *)
(* bytes of the first burst; a read at the end of a burst times out and    *)
(* moves on to the next burst; after the last burst every read times out.  *)
(***************************************************************************)
EXTENDS Integers, Sequences, FiniteSets, TLC

VARIABLES serial, conns, factory, log, result, call

vars == <<serial, conns, factory, log, result, call>>

(***************************************************************************)
(* Program constants (lib.rs:15-96).                                       *)
(***************************************************************************)
PACKET_CMD == 43
ACK_BLOCK_SIZE == 1024
ADDR_ROM == 0
ADDR_FIFO == 25231360
CMD_STATUS == 16
CMD_GET_MODE == 17
CMD_IO_RST == 18
CMD_MEM_RD == 25
CMD_MEM_WR == 26
CMD_FPG_USB == 30
CMD_FPG_SDC == 31
CMD_FPG_FLA == 32
CMD_HOST_RST == 41
CMD_F_FOPN == 201
CMD_F_FINFO == 208
CMD_RUN_APP == 241
\* `for _ in 0..100` of set_mode
RECONNECT_ATTEMPTS == 100
\* the drain's scratch buffer, `[0u8; 1024]` of open_serial
DRAIN_BUF == 1024
\* Duration::from_millis(100) and Duration::from_secs(1) of open_serial, in ms
DRAIN_TIMEOUT == 100
STEADY_TIMEOUT == 1000

\* enum Mode
Mode == {"Service", "App"}
\* enum ResetMode
ResetMode == {"Off", "Soft", "Hard"}

\* ResetMode::command
command(mode) ==
    CASE mode = "Off" -> 0
      [] mode = "Soft" -> 1
      [] mode = "Hard" -> 2

(***************************************************************************)
(* Bytes and fixed-width integers.                                         *)
(***************************************************************************)
\* `!v` on a u8
Not8(v) == 255 - v

\* BigEndian::write_u16 (the argument is already a u16)
BE16(v) == << (v \div 256) % 256, v % 256 >>

\* BigEndian::write_u32
BE32(v) == << (v \div 16777216) % 256, (v \div 65536) % 256,
              (v \div 256) % 256, v % 256 >>

\* BigEndian::read_u16
ReadBE16(b) == b[1] * 256 + b[2]

\* BigEndian::read_u32
ReadBE32(b) == b[1] * 16777216 + b[2] * 65536 + b[3] * 256 + b[4]

\* `x as u16`, `x as u8`.  (`x as u32` of a length is the four low bytes that
\* BE32 writes; the model's integers stay below 2^31.)
AsU16(x) == x % 65536
AsU8(x) == x % 256

Min(a, b) == IF a < b THEN a ELSE b

(***************************************************************************)
(* Errors and results.                                                     *)
(***************************************************************************)
NoErr == [kind |-> "none", code |-> 0]

IsOk(d) == d.err.kind = "none"

\* Err(anyhow!(...))? and a failing `?`
Fail(d, kind, code) == [d EXCEPT !.err = [kind |-> kind, code |-> code]]

\* Ok(value)
Ret(d, value) == [d EXCEPT !.ret = value]

\* `let x = expr?; then` : the rest runs on the result of a call that did not
\* fail, and a failure is the result of the whole
Try(d, Then(_)) == IF ~IsOk(d) THEN d ELSE Then(d)

\* `match expr { Ok(x) => ok, Err(e) => err }`
Match(d, OkCase(_), ErrCase(_)) == IF IsOk(d) THEN OkCase(d) ELSE ErrCase(d)

Event(ev, id, data, ok) == [ev |-> ev, conn |-> id, data |-> data, ok |-> ok]

(***************************************************************************)
(* The serial port (serialport::SerialPort, std::io::Read / Write).        *)
(* A connection is [rx, pending, timeout, nio, failAt]: the incoming       *)
(* bursts, the number of written bytes not yet flushed, the read timeout   *)
(* in ms, the number of write/flush calls made, and the call (counted from *)
(* 1) at which the transport reports an I/O error (0: never).              *)
(***************************************************************************)
NewConn(rx, failAt) ==
    [rx |-> rx, pending |-> 0, timeout |-> STEADY_TIMEOUT, nio |-> 0,
     failAt |-> failAt]

\* Write::write_all: an empty buffer makes no write call at all
port_write_all(d, id, bytes) ==
    IF ~IsOk(d) \/ Len(bytes) = 0 THEN d
    ELSE LET c == d.conns[id] IN
         IF c.nio + 1 = c.failAt
         THEN Fail([d EXCEPT !.conns[id].nio = @ + 1,
                             !.log = Append(@, Event("write", id, bytes, FALSE))],
                   "io error", 0)
         ELSE [d EXCEPT !.conns[id].nio = @ + 1,
                        !.conns[id].pending = @ + Len(bytes),
                        !.log = Append(@, Event("write", id, bytes, TRUE))]

\* Write::flush
port_flush(d, id) ==
    IF ~IsOk(d) THEN d
    ELSE LET c == d.conns[id] IN
         IF c.nio + 1 = c.failAt
         THEN Fail([d EXCEPT !.conns[id].nio = @ + 1,
                             !.log = Append(@, Event("flush", id, <<>>, FALSE))],
                   "io error", 0)
         ELSE [d EXCEPT !.conns[id].nio = @ + 1,
                        !.conns[id].pending = 0,
                        !.log = Append(@, Event("flush", id, <<>>, TRUE))]

\* SerialPort::set_timeout
port_set_timeout(d, id, ms) ==
    IF ~IsOk(d) THEN d ELSE [d EXCEPT !.conns[id].timeout = ms]

\* Read::read into a buffer of max bytes: Ok(n) with the bytes in d.ret, or
\* the error "timed out"
port_read(d, id, max) ==
    IF ~IsOk(d) THEN d
    ELSE LET rx == d.conns[id].rx IN
         IF rx = <<>>
         THEN Fail([d EXCEPT !.log = Append(@, Event("read", id, <<>>, FALSE))],
                   "timed out", 0)
         ELSE IF Head(rx) = <<>>
         THEN Fail([d EXCEPT !.conns[id].rx = Tail(rx),
                             !.log = Append(@, Event("read", id, <<>>, FALSE))],
                   "timed out", 0)
         ELSE LET n == Min(max, Len(Head(rx)))
                  got == SubSeq(Head(rx), 1, n)
                  rest == SubSeq(Head(rx), n + 1, Len(Head(rx)))
              IN Ret([d EXCEPT !.conns[id].rx = <<rest>> \o Tail(rx),
                               !.log = Append(@, Event("read", id, got, TRUE))],
                     got)

\* Read::read_exact of n bytes: the bytes in d.ret, or "timed out" after
\* consuming what had arrived
port_read_exact(d, id, n) ==
    IF ~IsOk(d) THEN d
    ELSE IF n = 0 THEN Ret(d, <<>>)
    ELSE LET rx == d.conns[id].rx
             avail == IF rx = <<>> THEN <<>> ELSE Head(rx)
         IN IF Len(avail) >= n
            THEN LET got == SubSeq(avail, 1, n)
                     rest == SubSeq(avail, n + 1, Len(avail))
                 IN Ret([d EXCEPT !.conns[id].rx = <<rest>> \o Tail(rx),
                                  !.log = Append(@, Event("read", id, got, TRUE))],
                        got)
            ELSE Fail([d EXCEPT !.conns[id].rx = IF rx = <<>> THEN <<>> ELSE Tail(rx),
                                !.log = Append(@, Event("read", id, avail, FALSE))],
                      "timed out", 0)

(***************************************************************************)
(* The Transport Provider (trait SerialFactory).  d.factory is             *)
(* [fails, opens, stream, failAt]: how many more calls of open fail, how   *)
(* many calls were made, and the incoming bursts and I/O fault of the      *)
(* connection a successful call hands out.                                 *)
(***************************************************************************)
\* SerialFactory::open: the new connection's index in d.ret
factory_open(d) ==
    IF ~IsOk(d) THEN d
    ELSE IF d.factory.fails > 0
    THEN Fail([d EXCEPT !.factory.fails = @ - 1, !.factory.opens = @ + 1],
              "unable to select serial port", 0)
    ELSE Ret([d EXCEPT !.factory.opens = @ + 1,
                       !.conns = Append(@, NewConn(d.factory.stream, d.factory.failAt))],
             Len(d.conns) + 1)

\* the drain loop of open_serial: read until a read fails or yields nothing
RECURSIVE drain(_, _)
drain(d, id) ==
    Match(port_read(d, id, DRAIN_BUF),
          LAMBDA r : IF Len(r.ret) <= 0 THEN r ELSE drain(r, id),
          LAMBDA r : [r EXCEPT !.err = NoErr])

\* EverdriveSerial::open_serial: the drained connection's index in d.ret
open_serial(d) ==
    Try(factory_open(d), LAMBDA o :
        Ret(port_set_timeout(
                drain(port_set_timeout(o, o.ret, DRAIN_TIMEOUT), o.ret),
                o.ret, STEADY_TIMEOUT),
            o.ret))

(***************************************************************************)
(* Primitive framing.                                                      *)
(***************************************************************************)
\* flush_cmd
flush_cmd(d) == port_flush(d, d.serial)

\* tx_cmd with the opcode sent twice instead of the opcode and its complement
tx_cmd_plain(d, cmd) ==
    port_write_all(d, d.serial, <<PACKET_CMD, Not8(PACKET_CMD), cmd, cmd>>)

\* tx_cmd
tx_cmd(d, cmd) ==
    port_write_all(d, d.serial, <<PACKET_CMD, Not8(PACKET_CMD), cmd, Not8(cmd)>>)

\* tx_u8
tx_u8(d, v) == port_write_all(d, d.serial, <<v>>)

\* tx_u16
tx_u16(d, v) == port_write_all(d, d.serial, BE16(v))

\* tx_u32
tx_u32(d, v) == port_write_all(d, d.serial, BE32(v))

\* tx_str
tx_str(d, s) ==
    Try(tx_u16(d, AsU16(Len(s))), LAMBDA d1 : port_write_all(d1, d1.serial, s))

\* rx_u8
rx_u8(d) ==
    Try(port_read_exact(d, d.serial, 1), LAMBDA r : Ret(r, r.ret[1]))

\* rx_u16
rx_u16(d) ==
    Try(port_read_exact(d, d.serial, 2), LAMBDA r : Ret(r, ReadBE16(r.ret)))

\* rx_u32
rx_u32(d) ==
    Try(port_read_exact(d, d.serial, 4), LAMBDA r : Ret(r, ReadBE32(r.ret)))

\* the chunk of data.chunks(ACK_BLOCK_SIZE) that starts after off bytes
chunk_at(data, off) ==
    SubSeq(data, off + 1, Min(off + ACK_BLOCK_SIZE, Len(data)))

\* tx_ack with the acknowledgment byte read but not examined
RECURSIVE tx_ack_unchecked_chunks(_, _, _)
tx_ack_unchecked_chunks(d, data, off) ==
    IF ~IsOk(d) \/ off >= Len(data) THEN d
    ELSE Try(rx_u8(d), LAMBDA r :
         Try(port_write_all(r, r.serial, chunk_at(data, off)), LAMBDA w :
         Try(flush_cmd(w), LAMBDA f :
             tx_ack_unchecked_chunks(f, data, off + ACK_BLOCK_SIZE))))

tx_ack_unchecked(d, data) == tx_ack_unchecked_chunks(d, data, 0)

\* the loop of tx_ack over data.chunks(ACK_BLOCK_SIZE), from the chunk that
\* starts after the first off bytes
RECURSIVE tx_ack_chunks(_, _, _)
tx_ack_chunks(d, data, off) ==
    IF ~IsOk(d) \/ off >= Len(data) THEN d
    ELSE Try(rx_u8(d), LAMBDA r :
         IF r.ret # 0 THEN Fail(r, "error transferring data", r.ret)
         ELSE Try(port_write_all(r, r.serial, chunk_at(data, off)), LAMBDA w :
              Try(flush_cmd(w), LAMBDA f :
                  tx_ack_chunks(f, data, off + ACK_BLOCK_SIZE))))

\* tx_ack
tx_ack(d, data) == tx_ack_chunks(d, data, 0)

\* a continuation byte of UTF-8
IsCont(b) == 128 <= b /\ b <= 191

\* core::str::from_utf8 accepts the bytes b from position i on
RECURSIVE IsUtf8From(_, _)
IsUtf8From(b, i) ==
    IF i > Len(b) THEN TRUE
    ELSE IF b[i] <= 127 THEN IsUtf8From(b, i + 1)
    ELSE IF 194 <= b[i] /\ b[i] <= 223
    THEN i + 1 <= Len(b) /\ IsCont(b[i + 1]) /\ IsUtf8From(b, i + 2)
    ELSE IF 224 <= b[i] /\ b[i] <= 239
    THEN /\ i + 2 <= Len(b)
         /\ IF b[i] = 224 THEN 160 <= b[i + 1] /\ b[i + 1] <= 191
            ELSE IF b[i] = 237 THEN 128 <= b[i + 1] /\ b[i + 1] <= 159
            ELSE IsCont(b[i + 1])
         /\ IsCont(b[i + 2])
         /\ IsUtf8From(b, i + 3)
    ELSE IF 240 <= b[i] /\ b[i] <= 244
    THEN /\ i + 3 <= Len(b)
         /\ IF b[i] = 240 THEN 144 <= b[i + 1] /\ b[i + 1] <= 191
            ELSE IF b[i] = 244 THEN 128 <= b[i + 1] /\ b[i + 1] <= 143
            ELSE IsCont(b[i + 1])
         /\ IsCont(b[i + 2])
         /\ IsCont(b[i + 3])
         /\ IsUtf8From(b, i + 4)
    ELSE FALSE

\* String::from_utf8(bytes).is_ok()
IsUtf8(b) == IsUtf8From(b, 1)

\* rx_str: the string (its UTF-8 bytes) in d.ret
rx_str(d) ==
    Try(rx_u16(d), LAMBDA d1 :
    Try(port_read_exact(d1, d1.serial, d1.ret), LAMBDA d2 :
        IF ~IsUtf8(d2.ret) THEN Fail(d2, "invalid utf-8 sequence", 0) ELSE d2))

\* rx_file_metadata: the FileMetadata in d.ret
rx_file_metadata(d) ==
    Try(rx_u32(d), LAMBDA size :
    Try(rx_u16(size), LAMBDA date :
    Try(rx_u16(date), LAMBDA time :
    Try(rx_u8(time), LAMBDA attrib :
    Try(rx_str(attrib), LAMBDA name :
        Ret(name, [name |-> name.ret, size |-> size.ret, date |-> date.ret,
                   time |-> time.ret, attrib |-> attrib.ret]))))))

(***************************************************************************)
(* Status and mode.                                                        *)
(***************************************************************************)
\* get_status with the sentinel byte not examined
get_status_any_sentinel(d) ==
    Try(tx_cmd(d, CMD_STATUS), LAMBDA d1 :
    Try(flush_cmd(d1), LAMBDA d2 :
    Try(rx_u16(d2), LAMBDA msg : Ret(msg, AsU8(msg.ret)))))

\* get_status: the status code in d.ret
get_status(d) ==
    Try(tx_cmd(d, CMD_STATUS), LAMBDA d1 :
    Try(flush_cmd(d1), LAMBDA d2 :
    Try(rx_u16(d2), LAMBDA msg :
        IF (msg.ret \div 256) * 256 # 42240
        THEN Fail(msg, "invalid status response", msg.ret)
        ELSE Ret(msg, AsU8(msg.ret)))))

\* check_status with every status code accepted
check_status_any(d) == get_status(d)

\* check_status
check_status(d) ==
    Try(get_status(d), LAMBDA res :
        IF res.ret # 0 THEN Fail(res, "unexpected status", res.ret) ELSE res)

\* get_mode that accepts only the bytes 0xA1 and 0
get_mode_strict(d) ==
    Try(tx_cmd(d, CMD_GET_MODE), LAMBDA d1 :
    Try(flush_cmd(d1), LAMBDA d2 :
    Try(rx_u8(d2), LAMBDA b :
        IF b.ret = 161 THEN Ret(b, "Service")
        ELSE IF b.ret = 0 THEN Ret(b, "App")
        ELSE Fail(b, "invalid mode", b.ret))))

\* get_mode: the Mode in d.ret
get_mode(d) ==
    Try(tx_cmd(d, CMD_GET_MODE), LAMBDA d1 :
    Try(flush_cmd(d1), LAMBDA d2 :
    Try(rx_u8(d2), LAMBDA b :
        Ret(b, IF b.ret = 161 THEN "Service" ELSE "App"))))

\* the mode-transition command of set_mode (`match target_mode`)
mode_transition(d, target_mode) ==
    IF target_mode = "Service"
    THEN Try(tx_cmd(d, CMD_IO_RST), LAMBDA d1 : tx_u8(d1, 0))
    ELSE tx_cmd(d, CMD_RUN_APP)

\* loop_pass with the status failure absorbed and retried like a failed
\* acquisition
loop_pass_absorb(d) ==
    IF ~IsOk(d) \/ d.exit THEN d
    ELSE Match(open_serial(d),
               LAMBDA o : Match(get_status(o),
                                LAMBDA s : [s EXCEPT !.serial = o.ret, !.exit = TRUE],
                                LAMBDA s : [s EXCEPT !.err = NoErr]),
               LAMBDA o : [o EXCEPT !.err = NoErr])

\* loop_pass with `self.serial = serial` before the status exchange
loop_pass_assign_first(d) ==
    IF ~IsOk(d) \/ d.exit THEN d
    ELSE Match(open_serial(d),
               LAMBDA o : Try(get_status([o EXCEPT !.serial = o.ret]), LAMBDA s :
                              [s EXCEPT !.exit = TRUE]),
               LAMBDA o : [o EXCEPT !.err = NoErr])

\* one pass of the body of set_mode's reconnect loop (`for _ in 0..100`):
\* a failed acquisition is `continue`; after an acquisition, the status
\* exchange, then `self.serial = serial; return Ok(())`.  d.exit says that
\* the loop has been left by that return.
loop_pass(d) ==
    IF ~IsOk(d) \/ d.exit THEN d
    ELSE Match(open_serial(d),
               LAMBDA o : Try(get_status(o), LAMBDA s :
                              [s EXCEPT !.serial = o.ret, !.exit = TRUE]),
               LAMBDA o : [o EXCEPT !.err = NoErr])

\* n passes of the loop body, one after the other (composed by halves, which
\* keeps the evaluation shallow)
RECURSIVE loop_passes(_, _)
loop_passes(d, n) ==
    IF n = 0 THEN d
    ELSE IF n = 1 THEN loop_pass(d)
    ELSE Try(loop_passes(d, n \div 2), LAMBDA h :
             IF h.exit THEN h ELSE loop_passes(h, n - (n \div 2)))

\* the end of set_mode after n passes of the loop: Ok(()) if the loop was
\* left by return, else the reconnect timeout
after_passes(d, n) ==
    Try(loop_passes(d, n), LAMBDA r :
        IF r.exit THEN [r EXCEPT !.exit = FALSE]
        ELSE Fail(r, "timeout reconnecting to device", 0))

\* reconnect with one pass fewer
reconnect_short(d) == after_passes(d, RECONNECT_ATTEMPTS - 1)

\* reconnect with one pass more
reconnect_long(d) == after_passes(d, RECONNECT_ATTEMPTS + 1)

\* the reconnect loop of set_mode and the error after it
reconnect(d) == after_passes(d, RECONNECT_ATTEMPTS)

\* set_mode without the early return on the current mode
set_mode_always(d, target_mode) ==
    Try(get_mode(d), LAMBDA current_mode :
    Try(mode_transition(current_mode, target_mode), LAMBDA d2 : reconnect(d2)))

\* set_mode
set_mode(d, target_mode) ==
    Try(get_mode(d), LAMBDA current_mode :
        IF current_mode.ret = target_mode THEN current_mode
        ELSE Try(mode_transition(current_mode, target_mode), LAMBDA d2 :
                 reconnect(d2)))

(***************************************************************************)
(* Construction.  `debug!("initial status {}", s.get_status()?)` evaluates *)
(* its argument only when the debug log level is enabled.                  *)
(***************************************************************************)
\* EverdriveSerial::new
new(d, debug) ==
    Try(open_serial(d), LAMBDA o :
    Try(get_status([o EXCEPT !.serial = o.ret]), LAMBDA s1 :
        IF debug THEN get_status(s1) ELSE s1))

(***************************************************************************)
(* Reset, memory and FIFO.                                                 *)
(***************************************************************************)
\* reset_host
reset_host(d, mode) ==
    Try(tx_cmd(d, CMD_HOST_RST), LAMBDA d1 :
    Try(tx_u8(d1, command(mode)), LAMBDA d2 : flush_cmd(d2)))

\* the MEM_WR / MEM_RD header of write_memory and read_memory: the command,
\* the address, the length, a zero byte, and a flush
mem_header(d, cmd, addr, len) ==
    Try(tx_cmd(d, cmd), LAMBDA d1 :
    Try(tx_u32(d1, addr), LAMBDA d2 :
    Try(tx_u32(d2, len), LAMBDA d3 :
    Try(tx_u8(d3, 0), LAMBDA d4 : flush_cmd(d4)))))

\* write_memory without the early return on an empty buffer
write_memory_always(d, addr, data) ==
    Try(mem_header(d, CMD_MEM_WR, addr, Len(data)), LAMBDA d5 :
    Try(port_write_all(d5, d5.serial, data), LAMBDA d6 : flush_cmd(d6)))

\* write_memory
write_memory(d, addr, data) ==
    IF ~IsOk(d) \/ Len(data) = 0 THEN d
    ELSE Try(mem_header(d, CMD_MEM_WR, addr, Len(data)), LAMBDA d5 :
         Try(port_write_all(d5, d5.serial, data), LAMBDA d6 : flush_cmd(d6)))

\* read_memory of a buffer of len bytes: the bytes read in d.ret
read_memory(d, addr, len) ==
    IF ~IsOk(d) \/ len = 0 THEN d
    ELSE Try(mem_header(d, CMD_MEM_RD, addr, len), LAMBDA d5 :
             port_read_exact(d5, d5.serial, len))

\* fifo_write
fifo_write(d, data) == write_memory(d, ADDR_FIFO, data)

\* fifo_write_u16
fifo_write_u16(d, v) == fifo_write(d, BE16(v))

\* fifo_write_u32
fifo_write_u32(d, v) == fifo_write(d, BE32(v))

\* fifo_write_str
fifo_write_str(d, str) ==
    Try(fifo_write_u16(d, AsU16(Len(str))), LAMBDA d1 : fifo_write(d1, str))

\* fifo_read
fifo_read(d, len) == read_memory(d, ADDR_FIFO, len)

(***************************************************************************)
(* Game load.  A string is the sequence of its UTF-8 bytes.                *)
(***************************************************************************)
\* "USB:"
USB_PREFIX == <<85, 83, 66, 58>>

\* load_game_rom with the ready byte read but not compared with 'r'
load_game_rom_unchecked(d, game) ==
    Try(set_mode(d, "App"), LAMBDA d1 :
    Try(reset_host(d1, "Soft"), LAMBDA d2 :
    Try(write_memory(d2, ADDR_ROM, game), LAMBDA d3 :
    Try(reset_host(d3, "Off"), LAMBDA d4 : rx_u8(d4)))))

\* load_game_rom with the reset released before the image is written
load_game_rom_swapped(d, game) ==
    Try(set_mode(d, "App"), LAMBDA d1 :
    Try(reset_host(d1, "Soft"), LAMBDA d2 :
    Try(reset_host(d2, "Off"), LAMBDA d3 :
    Try(write_memory(d3, ADDR_ROM, game), LAMBDA d4 :
    Try(rx_u8(d4), LAMBDA resp :
        IF resp.ret # 114 THEN Fail(resp, "unexpected response", resp.ret)
        ELSE resp)))))

\* load_game, lines 459-467: App mode, soft reset, the image to the ROM
\* window, reset off, the byte that must be 'r'
load_game_rom(d, game) ==
    Try(set_mode(d, "App"), LAMBDA d1 :
    Try(reset_host(d1, "Soft"), LAMBDA d2 :
    Try(write_memory(d2, ADDR_ROM, game), LAMBDA d3 :
    Try(reset_host(d3, "Off"), LAMBDA d4 :
    Try(rx_u8(d4), LAMBDA resp :
        IF resp.ret # 114 THEN Fail(resp, "unexpected response", resp.ret)
        ELSE resp)))))

\* load_game, lines 469-476: "*t" and the byte that must be 'k'
load_game_test(d) ==
    Try(fifo_write(d, <<42, 116>>), LAMBDA d1 :
    Try(flush_cmd(d1), LAMBDA d2 :
    Try(rx_u8(d2), LAMBDA resp :
        IF resp.ret # 107 THEN Fail(resp, "unexpected test response", resp.ret)
        ELSE resp)))

\* load_game_skip with the condition inverted
load_game_skip_inverted(d, skip_fpga) ==
    IF ~IsOk(d) \/ skip_fpga THEN d
    ELSE Try(fifo_write(d, <<42, 117>>), LAMBDA d1 : flush_cmd(d1))

\* load_game, lines 478-481: "*u" when skip_fpga
load_game_skip(d, skip_fpga) ==
    IF ~IsOk(d) \/ ~skip_fpga THEN d
    ELSE Try(fifo_write(d, <<42, 117>>), LAMBDA d1 : flush_cmd(d1))

\* load_game, lines 483-491: "*g", the image length, "USB:<name>", and the
\* final byte
load_game_info(d, name, game) ==
    Try(fifo_write(d, <<42, 103>>), LAMBDA d1 :
    Try(fifo_write_u32(d1, Len(game)), LAMBDA d2 :
    Try(fifo_write_str(d2, USB_PREFIX \o name), LAMBDA d3 :
    Try(flush_cmd(d3), LAMBDA d4 : rx_u8(d4)))))

\* load_game
load_game(d, name, game, skip_fpga) ==
    Try(load_game_rom(d, game), LAMBDA rom :
    Try(load_game_test(rom), LAMBDA test :
    Try(load_game_skip(test, skip_fpga), LAMBDA skip :
        load_game_info(skip, name, game))))

(***************************************************************************)
(* File metadata and FPGA load.                                            *)
(***************************************************************************)
\* get_file_metadata with the result code read but not examined
get_file_metadata_unchecked(d, path) ==
    Try(tx_cmd(d, CMD_F_FINFO), LAMBDA d1 :
    Try(tx_str(d1, path), LAMBDA d2 :
    Try(flush_cmd(d2), LAMBDA d3 :
    Try(rx_u8(d3), LAMBDA resp : rx_file_metadata(resp)))))

\* get_file_metadata: the FileMetadata in d.ret
get_file_metadata(d, path) ==
    Try(tx_cmd(d, CMD_F_FINFO), LAMBDA d1 :
    Try(tx_str(d1, path), LAMBDA d2 :
    Try(flush_cmd(d2), LAMBDA d3 :
    Try(rx_u8(d3), LAMBDA resp :
        IF resp.ret # 0
        THEN Fail(resp, "error fetching file metadata", resp.ret)
        ELSE rx_file_metadata(resp)))))

\* open_file
open_file(d, path, mode) ==
    Try(tx_cmd(d, CMD_F_FOPN), LAMBDA d1 :
    Try(tx_u8(d1, mode), LAMBDA d2 :
    Try(tx_str(d2, path), LAMBDA d3 : check_status(d3))))

\* the start of the three load_fpga operations: set_mode(Mode::App), then
\* reset_host(ResetMode::Soft)
fpga_prepare(d) ==
    Try(set_mode(d, "App"), LAMBDA d1 : reset_host(d1, "Soft"))

\* load_fpga_from_slice
load_fpga_from_slice(d, data) ==
    Try(fpga_prepare(d), LAMBDA d2 :
    Try(tx_cmd(d2, CMD_FPG_USB), LAMBDA d3 :
    Try(tx_u32(d3, Len(data)), LAMBDA d4 :
    Try(tx_ack(d4, data), LAMBDA d5 : check_status(d5)))))

\* load_fpga_from_flash
load_fpga_from_flash(d, addr) ==
    Try(fpga_prepare(d), LAMBDA d2 :
    Try(tx_cmd(d2, CMD_FPG_FLA), LAMBDA d3 :
    Try(tx_u32(d3, addr), LAMBDA d4 :
    Try(flush_cmd(d4), LAMBDA d5 : check_status(d5)))))

\* load_fpga_from_sd
load_fpga_from_sd(d, path) ==
    Try(fpga_prepare(d), LAMBDA d2 :
    Try(get_file_metadata(d2, path), LAMBDA info :
    Try(tx_cmd(info, CMD_FPG_SDC), LAMBDA d3 :
    Try(tx_u32(d3, info.ret.size), LAMBDA d4 :
    Try(tx_u8(d4, 0), LAMBDA d5 :
    Try(flush_cmd(d5), LAMBDA d6 : check_status(d6)))))))

(***************************************************************************)
(* The operations of the driver as actions.  An operation starts on the    *)
(* constructed, idle driver; its environment e says what the device and    *)
(* the Provider do while it runs:                                          *)
(*   e.cur     the bursts arriving on the current connection               *)
(*   e.nxt     the bursts arriving on a connection opened meanwhile        *)
(*   e.k       how many calls of the Provider's open fail first            *)
(*   e.failAt  the write/flush call on the current connection at which the *)
(*             transport reports an I/O error (0: none)                    *)
(***************************************************************************)
Env(cur, nxt, k, failAt) == [cur |-> cur, nxt |-> nxt, k |-> k, failAt |-> failAt]

Start(e) ==
    [serial |-> serial,
     conns |-> [conns EXCEPT ![serial].rx = @ \o e.cur, ![serial].failAt = e.failAt],
     factory |-> [factory EXCEPT !.fails = e.k, !.stream = e.nxt],
     log |-> <<>>, err |-> NoErr, ret |-> 0, exit |-> FALSE]

\* no operation has been called yet
Idle == result.kind = "idle"

Finish(c, d) ==
    /\ serial' = d.serial
    /\ conns' = d.conns
    /\ factory' = d.factory
    /\ log' = d.log
    /\ result' = IF IsOk(d) THEN [kind |-> "ok", code |-> 0] ELSE d.err
    /\ call' = c

\* all sequences over S of length at most n
RECURSIVE Seqs(_, _)
Seqs(S, n) ==
    IF n = 0 THEN {<<>>}
    ELSE LET P == Seqs(S, n - 1) IN P \cup {Append(p, x) : p \in P, x \in S}

\* a stream of one burst
Burst(bytes) == IF bytes = <<>> THEN <<>> ELSE <<bytes>>

\* every prefix of a sequence
Prefixes(q) == {SubSeq(q, 1, n) : n \in 0 .. Len(q)}

\* bounds of the environments
MaxStatusStream == 3
MaxFails == 2
ExtraFails == 1
MaxFaultAt == 60
MaxChunks == 3
MaxHandshake == 3

\* the length of the strings of every content
MaxStr == 3

\* the bytes of answers that arrive after the read that waited for them has
\* timed out: at most MaxLate bytes
MaxLate == 1

\* the answers to STATUS that arrive late, in part or whole: nothing in time
\* and the answer later, or the sentinel in time and the code later
LateStreams ==
    {<< <<>>, <<165, c>> >> : c \in {0, 161}}
    \cup {<< <<165>>, <<c>> >> : c \in {0, 161}}

\* the bytes a device answers GET_MODE and STATUS with
StatusBytes == {0, 161, 165}

\* answers to GET_MODE and then STATUS that carry the sentinel
SaneStatusStreams == {<<m, 165, c>> : m \in {0, 161}, c \in {0, 161}}

\* the bursts a freshly opened connection delivers before it answers:
\* nothing apart (the answers are there at once), silence, or stale bytes
StaleStreams == {<<>>, << <<>> >>, << <<43>> >>}

\* any answers and a Provider that fails a few times; sane answers and a
\* Provider that fails up to and beyond the loop's bound; sane answers and an
\* I/O error at some write or flush
SetModeEnvs ==
    {Env(Burst(cur), nxt, k, 0) :
        cur \in Seqs(StatusBytes, MaxStatusStream), nxt \in StaleStreams,
        k \in 0 .. MaxFails}
    \cup {Env(Burst(cur), <<>>, k, 0) :
        cur \in SaneStatusStreams, k \in 0 .. RECONNECT_ATTEMPTS + ExtraFails}
    \cup {Env(Burst(cur), <<>>, 0, f) :
        cur \in SaneStatusStreams, f \in 1 .. MaxFaultAt}

\* the environments of an operation that begins with set_mode(App) and then
\* reads the answers R: the device is in App mode already; it is in Service
\* mode and comes back on a new connection after K failed acquisitions at
\* most; the mode switch fails; or (answers Sane) the transport reports an
\* I/O error at some write or flush
AppModeEnvs(R, K, Sane) ==
    {Env(Burst(<<0>> \o r), <<>>, 0, 0) : r \in R}
    \cup {Env(Burst(<<161, 165, 0>>), st \o Burst(r), k, 0) :
            r \in R, st \in StaleStreams, k \in 0 .. K}
    \cup {Env(Burst(c), <<>>, 0, 0) : c \in {<<>>, <<161>>, <<161, 0, 0>>}}
    \cup {Env(Burst(<<161, 165, 0>>), <<>>, RECONNECT_ATTEMPTS, 0)}
    \cup {Env(Burst(<<0>> \o r), <<>>, 0, f) : r \in Sane, f \in 1 .. MaxFaultAt}

\* the bytes of a payload of n bytes
Payload(n) == [i \in 1 .. n |-> (i * 7) % 251]

\* the call record: the operation, its arguments and environment, and the
\* driver's connection, connection count and Provider call count at its start
Call(op, args, e) ==
    [op |-> op, args |-> args, env |-> e, serial |-> serial,
     nconns |-> Len(conns), opens |-> factory.opens]

SetMode ==
    /\ Idle
    /\ \E target_mode \in Mode, e \in SetModeEnvs :
           Finish(Call("set_mode", [target_mode |-> target_mode], e),
                  set_mode(Start(e), target_mode))

\* payload lengths of up to MaxChunks chunks, on and around chunk boundaries
PayloadLens ==
    {0} \cup {(c - 1) * ACK_BLOCK_SIZE + r : c \in 1 .. MaxChunks, r \in {1, 452, 1024}}

\* acknowledgment bytes: zero and non-zero
AckStreams == Seqs({0, 7}, MaxChunks + 1)

TxAck ==
    /\ Idle
    /\ \E n \in PayloadLens,
          e \in {Env(Burst(a), <<>>, 0, 0) : a \in AckStreams}
                \cup {Env(Burst(<<0, 0, 0>>), <<>>, 0, f) : f \in 1 .. MaxFaultAt} :
           Finish(Call("tx_ack", [n |-> n], e), tx_ack(Start(e), Payload(n)))

\* the bytes a device answers load_game's three reads with: 'r', 'k', 'x'
HandshakeStreams == Seqs({114, 107, 120}, MaxHandshake)

LoadGame ==
    /\ Idle
    /\ \E name \in {<<>>, <<97, 46, 98>>}, game \in {<<>>, <<77, 68>>},
          skip_fpga \in BOOLEAN,
          e \in AppModeEnvs(HandshakeStreams, MaxFails, {<<114, 107, 0>>}) :
           Finish(Call("load_game",
                       [name |-> name, game |-> game, skip_fpga |-> skip_fpga], e),
                  load_game(Start(e), name, game, skip_fpga))

\* answers to STATUS: with and without the sentinel, zero and non-zero codes
StatusStreams == Seqs({165, 0, 7}, 2)

LoadFpgaFromSlice ==
    /\ Idle
    /\ \E n \in {0, 1, ACK_BLOCK_SIZE + 1},
          e \in AppModeEnvs({a \o st : a \in Seqs({0, 7}, 2), st \in StatusStreams},
                            0, {<<0, 0, 165, 0>>}) :
           Finish(Call("load_fpga_from_slice", [n |-> n], e),
                  load_fpga_from_slice(Start(e), Payload(n)))

LoadFpgaFromFlash ==
    /\ Idle
    /\ \E addr \in {0, 262144},
          e \in AppModeEnvs(StatusStreams, 0, {<<165, 0>>}) :
           Finish(Call("load_fpga_from_flash", [addr |-> addr], e),
                  load_fpga_from_flash(Start(e), addr))

\* what a device sends for a FileMetadata
MetaBytes(size, date, time, attrib, name) ==
    BE32(size) \o BE16(date) \o BE16(time) \o <<attrib>> \o BE16(Len(name)) \o name

\* answers to F_FINFO: a result code, then metadata (whole or cut short, the
\* name valid UTF-8 or not), then the answer to STATUS
FileInfoStreams ==
    {<<rc>> \o m \o st :
        rc \in {0, 4},
        m \in Prefixes(MetaBytes(70000, 21000, 33000, 32, <<102, 195, 169>>))
              \cup {MetaBytes(0, 0, 0, 0, <<>>), MetaBytes(258, 1, 2, 3, <<255>>)},
        st \in StatusStreams}

LoadFpgaFromSd ==
    /\ Idle
    /\ \E path \in {<<>>, <<47, 102>>},
          e \in AppModeEnvs(FileInfoStreams, 0,
                            {<<0>> \o MetaBytes(258, 1, 2, 3, <<102>>) \o <<165, 0>>}) :
           Finish(Call("load_fpga_from_sd", [path |-> path], e),
                  load_fpga_from_sd(Start(e), path))

\* the end of an operation that returns a value
Return(c, d) ==
    /\ serial' = d.serial
    /\ conns' = d.conns
    /\ factory' = d.factory
    /\ log' = d.log
    /\ result' = IF IsOk(d) THEN [kind |-> "ok", code |-> 0, value |-> d.ret] ELSE d.err
    /\ call' = c

\* a second call on the driver that get_status was called on: the wire
\* events of the first call stay in the log
Again == call.op = "get_status" /\ call.args.nth = 1 /\ call.env.cur \in LateStreams
Resume(e) == [Start(e) EXCEPT !.log = log]

\* the nth call begins with the events of the calls before it
Begin(e) == IF Idle THEN Start(e) ELSE Resume(e)
Nth == IF Idle THEN 1 ELSE 2

\* the first call of get_status: one burst holding nothing, one byte or a
\* 16-bit answer (every high byte, every low byte), an answer that arrives
\* in two parts, and an I/O error at the write or the flush; a later call
\* finds what the device sends meanwhile
StatusAnswers ==
    {<<h, l>> : h \in 0 .. 255, l \in {0, 52, 255}}
    \cup {<<h, l>> : h \in {18, 165}, l \in 0 .. 255}
GetStatusEnvs ==
    IF Idle
    THEN {Env(Burst(a), <<>>, 0, 0) : a \in StatusAnswers \cup {<<>>, <<165>>}}
         \cup {Env(cur, <<>>, 0, 0) : cur \in LateStreams}
         \cup {Env(Burst(<<165, 0>>), <<>>, 0, f) : f \in 1 .. 2}
    ELSE {Env(Burst(a), <<>>, 0, 0) : a \in Seqs({0, 165}, MaxLate)}

GetStatus ==
    /\ Idle \/ Again
    /\ \E e \in GetStatusEnvs :
           Return(Call("get_status", [nth |-> Nth], e), get_status(Begin(e)))

\* get_mode: every byte as the answer, no answer, an I/O error
GetModeEnvs ==
    IF Idle
    THEN {Env(Burst(<<b>>), <<>>, 0, 0) : b \in 0 .. 255}
         \cup {Env(<<>>, <<>>, 0, f) : f \in 0 .. 2}
    ELSE {Env(Burst(a), <<>>, 0, 0) : a \in Seqs({0, 161}, MaxLate)}

GetMode ==
    /\ Idle \/ Again
    /\ \E e \in GetModeEnvs :
           Return(Call("get_mode", [nth |-> Nth], e), get_mode(Begin(e)))

\* tx_cmd with every opcode
TxCmd ==
    /\ Idle
    /\ \E cmd \in 0 .. 255, e \in {Env(<<>>, <<>>, 0, f) : f \in 0 .. 1} :
           Finish(Call("tx_cmd", [cmd |-> cmd], e), tx_cmd(Start(e), cmd))

\* the bytes of the completed writes of a log, in order
RECURSIVE Written(_)
Written(es) ==
    IF es = <<>> THEN <<>>
    ELSE Written(SubSeq(es, 1, Len(es) - 1))
         \o (IF es[Len(es)].ev = "write" /\ es[Len(es)].ok THEN es[Len(es)].data ELSE <<>>)

\* tx_str(s) on a connection that loops back: what was written is what
\* arrives; then rx_str
str_loopback(d, s) ==
    Try(tx_str(d, s), LAMBDA w :
        rx_str([w EXCEPT !.conns[w.serial].rx = @ \o Burst(Written(w.log))]))

\* a text stands for a string: its UTF-8 bytes are t.bytes followed by t.pad
\* letters 'a'
StringOf(t) == t.bytes \o [i \in 1 .. t.pad |-> 97]

\* the strings "", "a", "e-acute", the euro sign, a four-byte character, a
\* mix, every string over 'a' and NUL of up to MaxStr bytes, and the strings
\* of 2^16 and 2^16 + 1 letters
Texts ==
    {[bytes |-> b, pad |-> 0] :
        b \in {<<>>, <<97>>, <<195, 169>>, <<226, 130, 172>>, <<240, 157, 132, 158>>,
               <<97, 195, 169, 226, 130, 172, 98>>} \cup Seqs({97, 0}, MaxStr)}
    \cup {[bytes |-> <<>>, pad |-> n] : n \in {2 ^ 16, 2 ^ 16 + 1}}

StrLoopback ==
    /\ Idle
    /\ \E t \in Texts, e \in {Env(<<>>, <<>>, 0, f) : f \in 0 .. 2} :
           Return(Call("str_loopback", [text |-> t], e),
                  str_loopback(Start(e), StringOf(t)))

\* the I/O calls of a short operation at which the transport may fail
MaxOpFault == 8

\* an environment that only answers on the current connection, with or
\* without an I/O error
Answers(A) == {Env(Burst(a), <<>>, 0, f) : a \in A, f \in 0 .. MaxOpFault}

ResetHost ==
    /\ Idle
    /\ \E mode \in ResetMode, e \in Answers({<<>>}) :
           Finish(Call("reset_host", [mode |-> mode], e), reset_host(Start(e), mode))

WriteMemory ==
    /\ Idle
    /\ \E addr \in {ADDR_ROM, ADDR_FIFO}, n \in 0 .. 2, e \in Answers({<<>>, <<7>>}) :
           Finish(Call("write_memory", [addr |-> addr, n |-> n], e),
                  write_memory(Start(e), addr, Payload(n)))

ReadMemory ==
    /\ Idle
    /\ \E addr \in {ADDR_ROM, ADDR_FIFO}, n \in 0 .. 2, e \in Answers(Seqs({1, 2}, 2)) :
           Return(Call("read_memory", [addr |-> addr, n |-> n], e),
                  read_memory(Start(e), addr, n))

FifoWrite ==
    /\ Idle
    /\ \E n \in 0 .. 2, e \in Answers({<<>>, <<7>>}) :
           Finish(Call("fifo_write", [n |-> n], e), fifo_write(Start(e), Payload(n)))

FifoWriteU16 ==
    /\ Idle
    /\ \E v \in {0, 258, 65535}, e \in Answers({<<>>}) :
           Finish(Call("fifo_write_u16", [v |-> v], e), fifo_write_u16(Start(e), v))

FifoWriteU32 ==
    /\ Idle
    /\ \E v \in {0, 16909060}, e \in Answers({<<>>}) :
           Finish(Call("fifo_write_u32", [v |-> v], e), fifo_write_u32(Start(e), v))

\* the strings handed to fifo_write_str: short ones and one of 2^16 bytes
FifoTexts ==
    {[bytes |-> b, pad |-> 0] : b \in {<<>>, <<97>>, <<195, 169>>}}
    \cup {[bytes |-> <<>>, pad |-> 2 ^ 16]}

FifoWriteStr ==
    /\ Idle
    /\ \E t \in FifoTexts, e \in Answers({<<>>}) :
           Finish(Call("fifo_write_str", [text |-> t], e),
                  fifo_write_str(Start(e), StringOf(t)))

FifoRead ==
    /\ Idle
    /\ \E n \in 0 .. 2, e \in Answers(Seqs({1, 2}, 2)) :
           Return(Call("fifo_read", [n |-> n], e), fifo_read(Start(e), n))

GetFileMetadata ==
    /\ Idle
    /\ \E path \in {<<>>, <<47, 102>>},
          e \in Answers({<<rc>> \o mb :
                    rc \in {0, 4},
                    mb \in {<<>>, MetaBytes(0, 0, 0, 0, <<>>),
                            MetaBytes(70000, 21000, 33000, 32, <<102, 195, 169>>),
                            MetaBytes(258, 1, 2, 3, <<255>>)}}) :
           Return(Call("get_file_metadata", [path |-> path], e),
                  get_file_metadata(Start(e), path))

OpenFile ==
    /\ Idle
    /\ \E path \in {<<>>, <<47, 102>>}, mode \in {1, 10}, e \in Answers(StatusStreams) :
           Finish(Call("open_file", [path |-> path, mode |-> mode], e),
                  open_file(Start(e), path, mode))

\* a Provider that no driver has been constructed with yet: it fails e.k
\* times, then hands out a connection that delivers e.nxt and reports an I/O
\* error at its e.failAt-th write or flush
Fresh(e) ==
    [serial |-> 0, conns |-> <<>>,
     factory |-> [fails |-> e.k, opens |-> 0, stream |-> e.nxt, failAt |-> e.failAt],
     log |-> <<>>, err |-> NoErr, ret |-> 0, exit |-> FALSE]

\* the construction of a driver: the Provider fails or not, the connection
\* delivers stale bytes or silence and then the answers to STATUS
NewEnvs ==
    {Env(<<>>, st \o Burst(a), k, f) :
        st \in StaleStreams, a \in Seqs({165, 0, 7}, 4), k \in 0 .. 1, f \in 0 .. 1}

New ==
    /\ Idle
    /\ \E debug \in BOOLEAN, e \in NewEnvs :
           Finish([op |-> "new", args |-> [debug |-> debug], env |-> e,
                   serial |-> 0, nconns |-> 0, opens |-> 0],
                  new(Fresh(e), debug))

Init ==
    /\ serial = 1
    /\ conns = << NewConn(<<>>, 0) >>
    /\ factory = [fails |-> 0, opens |-> 1, stream |-> <<>>, failAt |-> 0]
    /\ log = <<>>
    /\ result = [kind |-> "idle", code |-> 0]
    /\ call = [op |-> "none", args |-> <<>>]

Next ==
    \/ SetMode
    \/ TxAck
    \/ LoadGame
    \/ LoadFpgaFromSlice
    \/ LoadFpgaFromFlash
    \/ LoadFpgaFromSd
    \/ GetStatus
    \/ GetMode
    \/ ResetHost
    \/ WriteMemory
    \/ ReadMemory
    \/ FifoWrite
    \/ FifoWriteU16
    \/ FifoWriteU32
    \/ FifoWriteStr
    \/ FifoRead
    \/ GetFileMetadata
    \/ OpenFile
    \/ New
    \/ TxCmd
    \/ StrLoopback

Spec == Init /\ [][Next]_vars

(***************************************************************************)
(* The reconnect loop of set_mode, one step at a time: every call of the   *)
(* Provider's open and every read of the drain is a step, so that a loop   *)
(* that goes on is a behaviour that goes on.  result.kind is the place the *)
(* driver is at ("opening": at the head of the `for`; "draining": in the   *)
(* `loop` of open_serial; "acquired": open_serial has returned) or the     *)
(* result of set_mode; call.pass counts the passes of the `for` begun,     *)
(* call.id is the connection being drained.  A connection that is chatty   *)
(* keeps sending: the bytes a read returned arrive again before the next   *)
(* read times out.  Wire events are not recorded here.                     *)
(***************************************************************************)
\* the driver and the world as the record the operators work on
Here ==
    [serial |-> serial, conns |-> conns, factory |-> factory, log |-> <<>>,
     err |-> NoErr, ret |-> 0, exit |-> FALSE]

\* the bursts of stale bytes of a newly opened connection
MaxStale == 2
StaleBursts == Seqs({<<43>>, <<10, 13>>}, MaxStale)

AcqInit ==
    /\ serial = 1
    /\ \E cur \in {<<>>, << <<165, 0>> >>, << <<0, 0>> >>} : conns = << NewConn(cur, 0) >>
    /\ \E k \in 0 .. MaxFails \cup {RECONNECT_ATTEMPTS}, st \in StaleBursts :
           factory = [fails |-> k, opens |-> 1, stream |-> st, failAt |-> 0]
    /\ log = <<>>
    /\ result = [kind |-> "opening", code |-> 0]
    /\ \E chatty \in BOOLEAN :
           /\ chatty => Len(factory.stream) >= 2 /\ factory.stream[1] # factory.stream[2]
           /\ call = [op |-> "reconnect", pass |-> 0, id |-> 0, chatty |-> chatty]

\* `for _ in 0..100`: the next pass calls open_serial, which calls the
\* Provider's open and, if that succeeds, sets the drain timeout
AcqOpen ==
    /\ result.kind = "opening" /\ call.pass < RECONNECT_ATTEMPTS
    /\ LET o == factory_open(Here) IN
          /\ factory' = o.factory
          /\ IF IsOk(o)
             THEN /\ conns' = port_set_timeout(o, o.ret, DRAIN_TIMEOUT).conns
                  /\ result' = [kind |-> "draining", code |-> 0]
                  /\ call' = [call EXCEPT !.pass = @ + 1, !.id = o.ret]
             ELSE /\ conns' = conns
                  /\ result' = result
                  /\ call' = [call EXCEPT !.pass = @ + 1]
    /\ UNCHANGED <<serial, log>>

\* the `for` has run out: Err("timeout reconnecting to device")
AcqGiveUp ==
    /\ result.kind = "opening" /\ call.pass = RECONNECT_ATTEMPTS
    /\ result' = [kind |-> "timeout reconnecting to device", code |-> 0]
    /\ UNCHANGED <<serial, conns, factory, log, call>>

\* `Ok(n)` with n > 0: the drain reads again
DrainGoesOn(r) == IF IsOk(r) THEN Len(r.ret) > 0 ELSE FALSE

\* a read of the drain returns bytes: they are discarded and the loop goes on
AcqDrainMore ==
    /\ result.kind = "draining"
    /\ LET r == port_read(Here, call.id, DRAIN_BUF) IN
          /\ DrainGoesOn(r)
          /\ conns' = IF call.chatty
                       THEN [r.conns EXCEPT ![call.id].rx =
                                SelectSeq(@, LAMBDA b : b # <<>>) \o <<r.ret>>]
                       ELSE r.conns
    /\ UNCHANGED <<serial, factory, log, result, call>>

\* a read of the drain fails or returns nothing: `break`, the steady
\* timeout is set and open_serial returns the connection
AcqDrainEnd ==
    /\ result.kind = "draining"
    /\ LET r == port_read(Here, call.id, DRAIN_BUF) IN
          /\ ~DrainGoesOn(r)
          /\ conns' = port_set_timeout([r EXCEPT !.err = NoErr], call.id,
                                        STEADY_TIMEOUT).conns
    /\ result' = [kind |-> "acquired", code |-> 0]
    /\ UNCHANGED <<serial, factory, log, call>>

\* `self.get_status()?; self.serial = serial; return Ok(())`
AcqStatus ==
    /\ result.kind = "acquired"
    /\ LET st == get_status(Here) IN
          /\ conns' = st.conns
          /\ serial' = IF IsOk(st) THEN call.id ELSE serial
          /\ result' = IF IsOk(st) THEN [kind |-> "ok", code |-> 0] ELSE st.err
    /\ UNCHANGED <<factory, log, call>>

AcqNext ==
    \/ AcqOpen
    \/ AcqGiveUp
    \/ AcqDrainMore
    \/ AcqDrainEnd
    \/ AcqStatus

\* the driver is a running program: it takes its next step
AcqSpec == AcqInit /\ [][AcqNext]_vars /\ WF_vars(AcqNext)

(***************************************************************************)
(* What the claims speak of, read off the finished operation: call is the  *)
(* operation, its arguments, its environment and the driver's connection,  *)
(* connection count and Provider call count when it started.               *)
(***************************************************************************)
\* the command frame of an opcode on the wire
Frame(opcode) == <<43, 212, opcode, 255 - opcode>>

\* the mode a GET_MODE answer byte stands for
ModeOfByte(b) == IF b = 161 THEN "Service" ELSE "App"

\* the places of the log where the bytes `data` were handed to a write
WritesOf(data) == {i \in DOMAIN log : log[i].ev = "write" /\ log[i].data = data}

\* the completed writes and reads of the log
OkWrites == {i \in DOMAIN log : log[i].ev = "write" /\ log[i].ok}
OkReads == {i \in DOMAIN log : log[i].ev = "read" /\ log[i].ok}

\* calls of the Provider's open made by the operation
Opens == factory.opens - call.opens

\* the Provider handed out a connection during the operation
Acquired == Len(conns) > call.nconns

\* the GET_MODE exchange came first and was answered with byte b
ModeAnswered(b) ==
    /\ Len(log) >= 3
    /\ log[1] = Event("write", call.serial, Frame(17), TRUE)
    /\ log[2] = Event("flush", call.serial, <<>>, TRUE)
    /\ log[3] = Event("read", call.serial, <<b>>, TRUE)

\* set_mode found the device in the other mode and wrote the whole
\* mode-transition command
TransitionSent ==
    /\ call.op = "set_mode"
    /\ \E b \in 0 .. 255 : ModeAnswered(b) /\ ModeOfByte(b) # call.args.target_mode
    /\ IF call.args.target_mode = "Service"
       THEN /\ Len(log) >= 5
            /\ log[4] = Event("write", call.serial, Frame(18), TRUE)
            /\ log[5] = Event("write", call.serial, <<0>>, TRUE)
       ELSE /\ Len(log) >= 4
            /\ log[4] = Event("write", call.serial, Frame(241), TRUE)

\* a STATUS exchange was begun and failed: in the write, the flush, the read
\* of the 16-bit answer, or the answer's sentinel
StatusExchangeFailed ==
    \E i \in WritesOf(Frame(16)) :
        \/ ~log[i].ok
        \/ i + 1 <= Len(log) /\ ~log[i + 1].ok
        \/ i + 2 <= Len(log) /\ (~log[i + 2].ok \/ log[i + 2].data[1] # 165)

\* C1: in set_mode's reconnect loop the STATUS exchange is performed on the
\* newly acquired connection: once a connection has been acquired, no STATUS
\* command frame is written to the old connection.
C1_StatusOnNewConnection ==
    (call.op = "set_mode" /\ Acquired) =>
        \A i \in WritesOf(Frame(16)) : log[i].conn # call.serial

\* C2: a failed STATUS exchange after a successful acquisition is propagated
\* at once: set_mode returns that failure, makes no further acquisition
\* attempt and keeps its connection.
C2_StatusFailurePropagated ==
    (call.op = "set_mode" /\ Acquired /\ StatusExchangeFailed) =>
        /\ result.kind \in {"io error", "timed out", "invalid status response"}
        /\ Opens = call.env.k + 1
        /\ Len(conns) = call.nconns + 1
        /\ serial = call.serial

C2_Witness ==
    /\ call.op = "set_mode" /\ Acquired /\ StatusExchangeFailed
    /\ result.kind = "invalid status response"
    /\ call.env.k = 1

\* C3: when set_mode must change mode and the Provider fails k < 100 times
\* and then succeeds, and no STATUS exchange fails, set_mode returns success
\* after exactly k + 1 calls of open.
C3_AttemptsUntilSuccess ==
    (TransitionSent /\ call.env.k < 100 /\ ~StatusExchangeFailed) =>
        /\ result.kind = "ok"
        /\ Opens = call.env.k + 1

C3_Witness ==
    /\ TransitionSent /\ call.env.k = 99 /\ ~StatusExchangeFailed
    /\ result.kind = "ok"

\* C4: set_mode calls open at most 100 times and never returns the failure
\* of an acquisition; when the mode must change and all 100 acquisitions
\* fail, it returns "timeout reconnecting to device" after exactly 100 calls
\* and keeps its connection.
C4_ReconnectBounded ==
    call.op = "set_mode" =>
        /\ Opens <= 100
        /\ result.kind # "unable to select serial port"
        /\ (TransitionSent /\ call.env.k >= 100) =>
              /\ result.kind = "timeout reconnecting to device"
              /\ Opens = 100
              /\ serial = call.serial
              /\ Len(conns) = call.nconns

C4_Witness ==
    /\ TransitionSent /\ call.env.k = 100
    /\ result.kind = "timeout reconnecting to device"

\* the device answers GET_MODE with the mode set_mode is called with, and the
\* transport reports no I/O error
AlreadyInTargetMode ==
    /\ call.op = "set_mode"
    /\ call.env.failAt = 0
    /\ call.env.cur # <<>>
    /\ ModeOfByte(call.env.cur[1][1]) = call.args.target_mode

\* C5 as stated: set_mode called with the device's current mode writes no
\* byte, reads no byte, does not call the Provider and returns success.
C5_NoWireTraffic ==
    AlreadyInTargetMode =>
        /\ log = <<>>
        /\ Opens = 0
        /\ result.kind = "ok"

\* C5 amended: set_mode called with the device's current mode performs the
\* GET_MODE exchange (the command frame, a flush, one byte read) and nothing
\* else: no mode-transition command, no call of the Provider, the same
\* connection, success.
C5_OnlyGetModeExchange ==
    AlreadyInTargetMode =>
        /\ \E b \in 0 .. 255 : ModeAnswered(b)
        /\ Len(log) = 3
        /\ Opens = 0
        /\ serial = call.serial
        /\ Len(conns) = call.nconns
        /\ result.kind = "ok"

C5_Witness ==
    /\ AlreadyInTargetMode
    /\ call.args.target_mode = "Service"
    /\ result.kind = "ok"

\* the first place of the log after n whose event satisfies P, or 0
FirstAfter(n, P(_)) ==
    IF \E i \in n + 1 .. Len(log) : P(log[i])
    THEN CHOOSE i \in n + 1 .. Len(log) :
             P(log[i]) /\ \A j \in n + 1 .. i - 1 : ~P(log[j])
    ELSE 0

\* the events of the log that are completed writes, in order
WriteSeq == SelectSeq(log, LAMBDA e : e.ev = "write" /\ e.ok)

\* chunk i (from 1) of a payload of n bytes cut into blocks of 1024
ChunkOf(n, i) ==
    SubSeq(Payload(n), (i - 1) * 1024 + 1, IF i * 1024 < n THEN i * 1024 ELSE n)

\* ceil(n / 1024)
NumChunks(n) == (n + 1023) \div 1024

\* C6: the acknowledgment-gated transfer writes the chunks of the payload in
\* order, at most ceil(n/1024) of them and all of them on success; it reads
\* exactly one status byte before each chunk and flushes after each chunk; a
\* non-zero status byte ends the transfer with a failure carrying that byte,
\* and nothing is written after it.
C6_AckGatedTransfer ==
    call.op = "tx_ack" =>
        /\ Len(WriteSeq) <= NumChunks(call.args.n)
        /\ \A i \in 1 .. Len(WriteSeq) : WriteSeq[i].data = ChunkOf(call.args.n, i)
        /\ \A j \in OkWrites :
              /\ j > 1 /\ log[j - 1] = Event("read", call.serial, <<0>>, TRUE)
              /\ j < Len(log) /\ log[j + 1].ev = "flush"
        /\ \A j \in DOMAIN log :
              log[j].ev = "read" =>
                  /\ Len(log[j].data) <= 1
                  /\ j = Len(log) \/ log[j + 1].ev = "write"
        /\ \A j \in OkReads :
              log[j].data[1] # 0 =>
                  /\ j = Len(log)
                  /\ result = [kind |-> "error transferring data",
                               code |-> log[j].data[1]]
        /\ result.kind = "ok" => Len(WriteSeq) = NumChunks(call.args.n)
        /\ (/\ call.env.failAt = 0
            /\ call.env.cur # <<>>
            /\ Len(call.env.cur[1]) >= NumChunks(call.args.n)
            /\ \A i \in 1 .. NumChunks(call.args.n) : call.env.cur[1][i] = 0)
           => result.kind = "ok"

\* 2500 bytes, the status byte before chunk 2 is 7: chunk 1 (1024 bytes) is
\* the only write
C6_Witness ==
    /\ call.op = "tx_ack" /\ call.args.n = 2500
    /\ result = [kind |-> "error transferring data", code |-> 7]
    /\ Len(WriteSeq) = 1 /\ Len(WriteSeq[1].data) = 1024

\* v as n big-endian bytes
Big(v, n) == [i \in 1 .. n |-> (v \div (256 ^ (n - i))) % 256]

\* what goes over the wire, byte by byte: a written byte is ["w", b], a byte
\* read is ["r", b]
W(bytes) == [i \in 1 .. Len(bytes) |-> [k |-> "w", b |-> bytes[i]]]
R(bytes) == [i \in 1 .. Len(bytes) |-> [k |-> "r", b |-> bytes[i]]]

RECURSIVE ItemsOf(_)
ItemsOf(es) ==
    IF es = <<>> THEN <<>>
    ELSE (IF Head(es).ev = "write" /\ Head(es).ok THEN W(Head(es).data)
          ELSE IF Head(es).ev = "read" THEN R(Head(es).data)
          ELSE <<>>) \o ItemsOf(Tail(es))

\* HOST_RST with a reset code; MEM_WR of data at an address (nothing at all
\* for no data)
HostRst(code) == Frame(41) \o <<code>>
MemWr(addr, data) ==
    IF data = <<>> THEN <<>>
    ELSE Frame(26) \o Big(addr, 4) \o Big(Len(data), 4) \o <<0>> \o data
FifoWr(data) == MemWr(25231360, data)

\* load_game from its soft reset on: the steps 2 to 9, in order, with the
\* bytes a successful run reads ('r', 'k', and a last byte fin)
GameSteps(name, game, skip_fpga, fin) ==
    W(HostRst(1)) \o W(MemWr(0, game)) \o W(HostRst(0))
    \o R(<<114>>)
    \o W(FifoWr(<<42, 116>>)) \o R(<<107>>)
    \o (IF skip_fpga THEN W(FifoWr(<<42, 117>>)) ELSE <<>>)
    \o W(FifoWr(<<42, 103>>))
    \o W(FifoWr(Big(Len(game), 4)))
    \o W(FifoWr(Big(4 + Len(name), 2)))
    \o W(FifoWr(<<85, 83, 66, 58>> \o name))
    \o R(<<fin>>)

\* where load_game's soft reset begins in the log (0: it never began), and
\* the wire traffic from there on
ResetIdx == FirstAfter(0, LAMBDA e : e.ev = "write" /\ e.data = Frame(41))
GameItems == IF ResetIdx = 0 THEN <<>> ELSE ItemsOf(SubSeq(log, ResetIdx, Len(log)))

\* App mode was ensured before the place j of the log: the GET_MODE exchange
\* came first, and the device was in App mode or RUN_APP was written
AppEnsuredBefore(j) ==
    \E b \in 0 .. 255 :
        /\ ModeAnswered(b)
        /\ \/ ModeOfByte(b) = "App"
           \/ \E i \in 4 .. j - 1 : log[i] = Event("write", call.serial, Frame(241), TRUE)

\* the traffic A is a run of the steps E as far as it got: the same writes
\* and reads in the same order, where a read may differ from what E expects
\* only if it is the last thing that happened
RunsAlong(A, E) ==
    /\ Len(A) <= Len(E)
    /\ \A i \in 1 .. Len(A) :
          /\ A[i].k = E[i].k
          /\ A[i].b = E[i].b \/ (A[i].k = "r" /\ i = Len(A))

\* C7: load_game ensures App mode and then performs its steps in the fixed
\* order; it succeeds only if every step was performed with the expected
\* bytes read, and a step that fails is the last thing it does.
C7_LoadGameLinear ==
    call.op = "load_game" =>
        LET E == GameSteps(call.args.name, call.args.game, call.args.skip_fpga,
                           IF GameItems # <<>> /\ GameItems[Len(GameItems)].k = "r"
                           THEN GameItems[Len(GameItems)].b ELSE 0)
        IN /\ RunsAlong(GameItems, E)
           /\ ResetIdx # 0 =>
                 /\ AppEnsuredBefore(ResetIdx)
                 /\ \A i \in ResetIdx .. Len(log) : log[i].conn = serial
           /\ result.kind = "ok" <=> GameItems = E

C7_Witness ==
    /\ call.op = "load_game" /\ result.kind = "ok"
    /\ call.args.skip_fpga /\ call.args.game # <<>> /\ call.args.name # <<>>
    /\ serial # call.serial

\* the places of the first read after load_game's soft reset (the ready
\* byte) and of the read after that one (the test byte); 0: there is none
ReadyIdx == IF ResetIdx = 0 THEN 0 ELSE FirstAfter(ResetIdx, LAMBDA e : e.ev = "read")
TestIdx == IF ReadyIdx = 0 THEN 0 ELSE FirstAfter(ReadyIdx, LAMBDA e : e.ev = "read")

\* the places where a MEM_WR command frame was handed to a write, and those
\* where the payload `data` of a MEM_WR to the FIFO address was
MemWrFrames == WritesOf(Frame(26))
FifoWrites(data) ==
    {i \in WritesOf(data) :
        i > 5 /\ log[i - 5].data = Frame(26) /\ log[i - 4].data = Big(25231360, 4)}

\* a byte was read at the place r and it is not `expected`
Rejected(r, expected) ==
    /\ r # 0
    /\ log[r].ok
    /\ log[r].data # <<expected>>

\* nothing is written after the place r of the log
NoWriteAfter(r) == \A i \in r + 1 .. Len(log) : log[i].ev # "write"

\* C8: if the byte read after the ROM write and the reset release is not
\* 'r', load_game fails with "unexpected response" and that byte, and writes
\* nothing afterwards: no MEM_WR, no FIFO command "*t", "*u" or "*g".
C8_NotReadyAborts ==
    (call.op = "load_game" /\ Rejected(ReadyIdx, 114))
    => /\ result = [kind |-> "unexpected response", code |-> log[ReadyIdx].data[1]]
       /\ NoWriteAfter(ReadyIdx)
       /\ \A i \in MemWrFrames : i < ReadyIdx /\ log[i + 1].data = Big(0, 4)
       /\ FifoWrites(<<42, 116>>) \cup FifoWrites(<<42, 117>>)
              \cup FifoWrites(<<42, 103>>) = {}

C8_Witness ==
    /\ call.op = "load_game" /\ call.args.game # <<>>
    /\ ReadyIdx # 0
    /\ log[ReadyIdx] = Event("read", serial, <<120>>, TRUE)
    /\ result = [kind |-> "unexpected response", code |-> 120]
    /\ MemWrFrames # {}

\* C9: "*u" is written to the FIFO at most once, only when skip_fpga is set,
\* only after the test byte 'k' was read and before "*g"; when "*g" is
\* written, "*u" was written before it exactly if skip_fpga is set; and a
\* test byte other than 'k' fails load_game with neither "*u" nor "*g"
\* written.
C9_SkipFpgaCommand ==
    call.op = "load_game" =>
        /\ Cardinality(FifoWrites(<<42, 117>>)) <= 1
        /\ \A u \in FifoWrites(<<42, 117>>) :
              /\ call.args.skip_fpga
              /\ TestIdx # 0 /\ TestIdx < u
              /\ log[TestIdx] = Event("read", serial, <<107>>, TRUE)
              /\ \A g \in FifoWrites(<<42, 103>>) : u < g
        /\ \A g \in FifoWrites(<<42, 103>>) :
              call.args.skip_fpga <=> \E u \in FifoWrites(<<42, 117>>) : u < g /\ log[u].ok
        /\ Rejected(TestIdx, 107)
           => /\ result = [kind |-> "unexpected test response",
                           code |-> log[TestIdx].data[1]]
              /\ NoWriteAfter(TestIdx)
              /\ FifoWrites(<<42, 117>>) \cup FifoWrites(<<42, 103>>) = {}

C9_Witness ==
    /\ call.op = "load_game" /\ call.args.skip_fpga /\ result.kind = "ok"
    /\ FifoWrites(<<42, 117>>) # {} /\ FifoWrites(<<42, 103>>) # {}

\* the FPGA command of a load_fpga operation
FpgaOpcode ==
    CASE call.op = "load_fpga_from_slice" -> 30
      [] call.op = "load_fpga_from_sd" -> 31
      [] call.op = "load_fpga_from_flash" -> 32

\* a soft target reset (HOST_RST, code 1, flush) completed at the place i
SoftResetAt(i) ==
    /\ i + 2 <= Len(log)
    /\ log[i] = Event("write", serial, Frame(41), TRUE)
    /\ log[i + 1] = Event("write", serial, <<1>>, TRUE)
    /\ log[i + 2] = Event("flush", serial, <<>>, TRUE)

\* the places where the operation's FPGA command frame was handed to a write
FpgaFrames == WritesOf(Frame(FpgaOpcode))

\* C10: each load_fpga operation ensures App mode and completes a soft
\* target reset before it writes its FPGA command; it returns success only
\* after a final STATUS exchange answered with status 0, and it returns a
\* failure carrying the code when that exchange is answered with a non-zero
\* status.
C10_FpgaLoadStatus ==
    call.op \in {"load_fpga_from_slice", "load_fpga_from_flash", "load_fpga_from_sd"} =>
        /\ Cardinality(FpgaFrames) <= 1
        /\ \A j \in FpgaFrames :
              /\ AppEnsuredBefore(j)
              /\ \E i \in 1 .. j - 3 : SoftResetAt(i)
              /\ log[j].conn = serial
        /\ \A s \in WritesOf(Frame(16)) :
              (/\ \E j \in FpgaFrames : j < s
               /\ s + 2 <= Len(log)
               /\ log[s + 2].ok
               /\ log[s + 2].data[1] = 165
               /\ log[s + 2].data[2] # 0)
              => result = [kind |-> "unexpected status", code |-> log[s + 2].data[2]]
        /\ result.kind = "ok" =>
              /\ Len(log) >= 3
              /\ log[Len(log) - 2] = Event("write", serial, Frame(16), TRUE)
              /\ log[Len(log)] = Event("read", serial, <<165, 0>>, TRUE)
              /\ \E j \in FpgaFrames : j < Len(log) - 2 /\ log[j].ok

C10_Witness ==
    /\ call.op = "load_fpga_from_sd"
    /\ result = [kind |-> "unexpected status", code |-> 7]
    /\ FpgaFrames # {}

\* the value of big-endian bytes
RECURSIVE ValueOf(_)
ValueOf(bytes) ==
    IF bytes = <<>> THEN 0
    ELSE ValueOf(SubSeq(bytes, 1, Len(bytes) - 1)) * 256 + bytes[Len(bytes)]

\* the places where load_fpga_from_sd wrote the F_FINFO command frame and
\* read the result code after it (0: it did not)
FinfoIdx == FirstAfter(0, LAMBDA e : e.ev = "write" /\ e.data = Frame(208))
FinfoCodeIdx == IF FinfoIdx = 0 THEN 0 ELSE FirstAfter(FinfoIdx, LAMBDA e : e.ev = "read")

\* the reads of the log after the place r
ReadsAfter(r) == SelectSeq(SubSeq(log, r + 1, Len(log)), LAMBDA e : e.ev = "read")

\* the reads M are the reads of a whole file metadata: size (4 bytes), date
\* (2), time (2), attribute (1), name length (2) and, unless that length is
\* zero, the name
MetadataRead(M) ==
    /\ Len(M) >= 5
    /\ \A i \in 1 .. 5 : M[i].ok /\ Len(M[i].data) = <<4, 2, 2, 1, 2>>[i]
    /\ ValueOf(M[5].data) > 0 =>
          Len(M) >= 6 /\ M[6].ok /\ Len(M[6].data) = ValueOf(M[5].data)

\* C11: load_fpga_from_sd writes the FPG_SDC command frame only after the
\* F_FINFO exchange with result code 0 and the whole metadata read, and the
\* 32-bit size it sends after the frame is the size of that metadata; a
\* non-zero result code fails the operation with that code, no metadata
\* field is read after it, and the FPG_SDC frame is not written.
C11_MetadataBeforeFpgSdc ==
    call.op = "load_fpga_from_sd" =>
        /\ \A j \in WritesOf(Frame(31)) :
              /\ FinfoIdx # 0 /\ FinfoCodeIdx # 0 /\ FinfoCodeIdx < j
              /\ log[FinfoCodeIdx] = Event("read", serial, <<0>>, TRUE)
              /\ MetadataRead(ReadsAfter(FinfoCodeIdx))
              /\ \A i \in FinfoCodeIdx + 1 .. j - 1 : log[i].ev = "read" /\ log[i].ok
              /\ j + 1 <= Len(log) =>
                    /\ log[j + 1].ev = "write"
                    /\ log[j + 1].data = Big(ValueOf(log[FinfoCodeIdx + 1].data), 4)
        /\ (/\ FinfoCodeIdx # 0
            /\ log[FinfoCodeIdx].ok
            /\ log[FinfoCodeIdx].data # <<0>>)
           => /\ result = [kind |-> "error fetching file metadata",
                           code |-> log[FinfoCodeIdx].data[1]]
              /\ FinfoCodeIdx = Len(log)
              /\ WritesOf(Frame(31)) = {}

\* the device reports a file of 70000 bytes and FPG_SDC is sent with 70000
C11_Witness ==
    /\ call.op = "load_fpga_from_sd" /\ result.kind = "ok"
    /\ \E j \in WritesOf(Frame(31)) :
          /\ log[j + 1] = Event("write", serial, <<0, 1, 17, 112>>, TRUE)
          /\ log[FinfoCodeIdx + 1] = Event("read", serial, <<0, 1, 17, 112>>, TRUE)

\* the last place of the log whose event satisfies P, or 0
LastIdx(P(_)) ==
    IF \E i \in DOMAIN log : P(log[i])
    THEN CHOOSE i \in DOMAIN log :
             P(log[i]) /\ \A j \in i + 1 .. Len(log) : ~P(log[j])
    ELSE 0

\* where the last STATUS command frame was handed to a write
StatusIdx == LastIdx(LAMBDA e : e.ev = "write" /\ e.data = Frame(16))

\* the exchange that begins at the place s of the log and ends the log: a
\* command frame written, a flush, and one read
ExchangeAt(s, opcode) ==
    /\ s # 0 /\ Len(log) = s + 2
    /\ log[s] = Event("write", serial, Frame(opcode), TRUE)
    /\ log[s + 1] = Event("flush", serial, <<>>, TRUE)
    /\ log[s + 2].ev = "read" /\ log[s + 2].conn = serial

\* C14: get_status writes the STATUS command frame, flushes and reads two
\* bytes; when both bytes were read, it fails with "invalid status response"
\* if the first is not 0xA5 and returns the second if the first is 0xA5; it
\* succeeds in no other case.
C14_StatusSentinel ==
    call.op = "get_status" =>
        /\ StatusIdx # 0
        /\ \A i \in StatusIdx + 1 .. Len(log) : log[i].ev # "write"
        /\ (ExchangeAt(StatusIdx, 16) /\ log[StatusIdx + 2].ok) =>
              /\ Len(log[StatusIdx + 2].data) = 2
              /\ IF log[StatusIdx + 2].data[1] = 165
                 THEN result = [kind |-> "ok", code |-> 0,
                                value |-> log[StatusIdx + 2].data[2]]
                 ELSE result = [kind |-> "invalid status response",
                                code |-> ValueOf(log[StatusIdx + 2].data)]
        /\ result.kind = "ok" => ExchangeAt(StatusIdx, 16) /\ log[StatusIdx + 2].ok

\* the answer 0xA5FF gives the status 255
C14_Witness ==
    /\ call.op = "get_status"
    /\ ExchangeAt(StatusIdx, 16)
    /\ log[StatusIdx + 2].data = <<165, 255>>
    /\ result = [kind |-> "ok", code |-> 0, value |-> 255]

\* where the last GET_MODE command frame was handed to a write
GetModeIdx == LastIdx(LAMBDA e : e.ev = "write" /\ e.data = Frame(17))

\* C15: get_mode writes the GET_MODE command frame, flushes and reads one
\* byte; whatever byte was read, it succeeds, returning Service for 0xA1 and
\* App for every other byte.
C15_ModeOfByte ==
    call.op = "get_mode" =>
        /\ GetModeIdx # 0
        /\ \A i \in GetModeIdx + 1 .. Len(log) : log[i].ev # "write"
        /\ (ExchangeAt(GetModeIdx, 17) /\ log[GetModeIdx + 2].ok) =>
              /\ Len(log[GetModeIdx + 2].data) = 1
              /\ result = [kind |-> "ok", code |-> 0,
                           value |-> IF log[GetModeIdx + 2].data = <<161>>
                                     THEN "Service" ELSE "App"]
        /\ result.kind = "ok" => ExchangeAt(GetModeIdx, 17) /\ log[GetModeIdx + 2].ok

\* the answer 0xFF gives App
C15_Witness ==
    /\ call.op = "get_mode"
    /\ ExchangeAt(GetModeIdx, 17)
    /\ log[GetModeIdx + 2].data = <<255>>
    /\ result = [kind |-> "ok", code |-> 0, value |-> "App"]

\* the bytes are a command frame
IsFrame(data) == Len(data) = 4 /\ data[1] = 43 /\ data[2] = 212 /\ data[3] + data[4] = 255

\* the number of bytes the device answers a command with, for the commands
\* whose answer has a fixed length: STATUS 2, GET_MODE 1
AnswerLen(opcode) == CASE opcode = 16 -> 2 [] opcode = 17 -> 1 [] OTHER -> 0

\* the number of bytes read on connection c between the places i and j
RECURSIVE BytesRead(_, _, _)
BytesRead(c, i, j) ==
    IF i + 1 >= j THEN 0
    ELSE (IF log[i + 1].ev = "read" /\ log[i + 1].conn = c
          THEN Len(log[i + 1].data) ELSE 0) + BytesRead(c, i + 1, j)

\* C12: the driver writes no command frame on a connection while the answer
\* to an earlier command on that connection has not been read whole; the log
\* is the wire history of every call made on the driver so far.
C12_OneExchangeOutstanding ==
    \A j \in DOMAIN log :
        (log[j].ev = "write" /\ IsFrame(log[j].data)) =>
            \A i \in 1 .. j - 1 :
                (/\ log[i].ev = "write" /\ log[i].ok /\ IsFrame(log[i].data)
                 /\ log[i].conn = log[j].conn)
                => BytesRead(log[i].conn, i, j) >= AnswerLen(log[i].data[3])

\* the operations that begin with set_mode, and the mode they ask for
WithSetMode ==
    {"set_mode", "load_game", "load_fpga_from_slice", "load_fpga_from_flash",
     "load_fpga_from_sd"}
TargetMode == IF call.op = "set_mode" THEN call.args.target_mode ELSE "App"

\* the operation found the device in the other mode and wrote the command
\* frame of the mode transition
TransitionFrameSent ==
    /\ \E b \in 0 .. 255 : ModeAnswered(b) /\ ModeOfByte(b) # TargetMode
    /\ Len(log) >= 4
    /\ log[4] = Event("write", call.serial,
                      Frame(IF TargetMode = "Service" THEN 18 ELSE 241), TRUE)

\* a STATUS exchange was completed with the sentinel answered
StatusAnswered ==
    \E i \in WritesOf(Frame(16)) :
        /\ i + 2 <= Len(log)
        /\ log[i].ok /\ log[i + 1].ok /\ log[i + 2].ok
        /\ log[i + 2].data[1] = 165

\* C13: the construction of a driver calls the Provider's open exactly once;
\* afterwards open is called only by an operation that runs set_mode, and
\* only after the mode-transition command; the current connection is
\* replaced only then, by the one connection acquired, after a STATUS
\* exchange that succeeded; a set_mode that fails and every operation that
\* does not run set_mode leave the current connection as it was.
C13_ConnectionOwnership ==
    /\ call.op = "new" =>
          /\ factory.opens = 1
          /\ Len(conns) <= 1
          /\ result.kind = "ok" => serial = 1 /\ Len(conns) = 1
    /\ (call.op \notin WithSetMode \cup {"new", "none"}) =>
          /\ Opens = 0 /\ ~Acquired
          /\ serial = call.serial
    /\ call.op \in WithSetMode =>
          /\ Opens > 0 => TransitionFrameSent
          /\ Acquired <=> Len(conns) = call.nconns + 1
          /\ serial # call.serial =>
                /\ Acquired /\ serial = Len(conns)
                /\ TransitionFrameSent
                /\ StatusAnswered
          /\ (call.op = "set_mode" /\ result.kind # "ok") => serial = call.serial
          /\ (call.op = "set_mode" /\ result.kind = "ok") =>
                (serial # call.serial <=> TransitionFrameSent)

\* a set_mode that acquired a connection after a failed call of open and
\* then failed at the status exchange: the driver keeps its connection
C13_Witness ==
    /\ call.op = "set_mode" /\ result.kind = "invalid status response"
    /\ Acquired /\ Opens > 1
    /\ serial = call.serial

\* the bits of a byte, lowest first, and the byte of eight bits
BitsOf(v) == [i \in 1 .. 8 |-> (v \div (2 ^ (i - 1))) % 2]
RECURSIVE ByteOf(_)
ByteOf(bits) == IF bits = <<>> THEN 0 ELSE Head(bits) + 2 * ByteOf(Tail(bits))

\* the bitwise complement of a byte
Complement(v) == ByteOf([i \in 1 .. 8 |-> 1 - BitsOf(v)[i]])

\* C16: for every opcode, tx_cmd hands to one write exactly the four bytes
\* 0x2B, 0xD4, opcode, bitwise complement of the opcode; bytes 0 and 1, and
\* bytes 2 and 3, are complements of each other and sum to 0xFF.
C16_CommandFrame ==
    call.op = "tx_cmd" =>
        /\ Len(log) = 1
        /\ log[1].ev = "write" /\ log[1].conn = serial
        /\ log[1].data = <<43, 212, call.args.cmd, Complement(call.args.cmd)>>
        /\ log[1].data[2] = Complement(log[1].data[1])
        /\ log[1].data[1] + log[1].data[2] = 255
        /\ log[1].data[3] + log[1].data[4] = 255
        /\ log[1].ok <=> result.kind = "ok"

\* the frame of opcode 0xF1 is 2B D4 F1 0E
C16_Witness ==
    /\ call.op = "tx_cmd" /\ call.args.cmd = 241 /\ result.kind = "ok"
    /\ log = <<Event("write", serial, <<43, 212, 241, 14>>, TRUE)>>

\* C17: write_memory, read_memory, fifo_write and fifo_read called with an
\* empty buffer make no write, no flush and no read, and return success,
\* also on a transport whose next I/O call would fail; the bytes waiting on
\* the connection stay where they are and nothing is pending.
C17_EmptyBufferNoIo ==
    (/\ call.op \in {"write_memory", "read_memory", "fifo_write", "fifo_read"}
     /\ call.args.n = 0)
    => /\ log = <<>>
       /\ result.kind = "ok"
       /\ serial = call.serial
       /\ conns[serial].rx = call.env.cur
       /\ conns[serial].pending = 0
       /\ conns[serial].nio = 0

\* write_memory of nothing succeeds on a transport whose first I/O call
\* would fail, with a byte waiting to be read
C17_Witness ==
    /\ call.op = "write_memory" /\ call.args.n = 0
    /\ call.env.failAt = 1 /\ call.env.cur = << <<7>> >>
    /\ result.kind = "ok" /\ log = <<>>

\* no byte is waiting on the connection c
Consumed(c) == \A i \in DOMAIN conns[c].rx : conns[c].rx[i] = <<>>

\* C18: for every string s, rx_str on the bytes that tx_str(s) wrote returns
\* s and leaves none of those bytes unread.
C18_StringRoundTrip ==
    (call.op = "str_loopback" /\ call.env.failAt = 0) =>
        /\ result = [kind |-> "ok", code |-> 0, value |-> StringOf(call.args.text)]
        /\ Consumed(serial)

\* the same for the strings whose length fits the 16-bit prefix only (this
\* holds)
RoundTripOfShort ==
    (call.op = "str_loopback" /\ call.env.failAt = 0 /\ call.args.text.pad < 2 ^ 16) =>
        /\ result = [kind |-> "ok", code |-> 0, value |-> StringOf(call.args.text)]
        /\ Consumed(serial)

\* the public operations of the driver
PublicOps ==
    {"new", "get_status", "get_mode", "set_mode", "reset_host", "write_memory",
     "read_memory", "fifo_write", "fifo_write_u16", "fifo_write_u32",
     "fifo_write_str", "fifo_read", "load_game", "load_fpga_from_slice",
     "load_fpga_from_flash", "load_fpga_from_sd", "get_file_metadata", "open_file"}

\* bytes written on the connection of the read at the place j are still
\* unflushed when that read begins
UnflushedAt(j) ==
    \E i \in 1 .. j - 1 :
        /\ log[i].ev = "write" /\ log[i].ok /\ log[i].conn = log[j].conn
        /\ \A f \in i + 1 .. j - 1 :
              ~(log[f].ev = "flush" /\ log[f].ok /\ log[f].conn = log[j].conn)

\* C19: in a public operation no read begins on a connection while bytes
\* written on that connection have not been flushed.
C19_FlushedBeforeRead ==
    call.op \in PublicOps =>
        \A j \in DOMAIN log : log[j].ev = "read" => ~UnflushedAt(j)

\* the reconnect loop has ended: set_mode has returned success or a failure
AcqEnded == result.kind \notin {"opening", "draining", "acquired"}

\* C20: connection acquisition terminates, so that set_mode's reconnect loop
\* ends in success or in a failure; and a connection that open_serial has
\* returned has the steady read timeout, not the drain timeout.
C20_AcquisitionTerminates ==
    /\ <>AcqEnded
    /\ [](result.kind = "acquired" => conns[call.id].timeout = STEADY_TIMEOUT)

\* the parts of it that hold: a connection that open_serial has returned
\* has the steady timeout, and with a device that falls silent the loop ends
AcquiredSteady ==
    result.kind = "acquired" => conns[call.id].timeout = STEADY_TIMEOUT

QuietDeviceTerminates == ~call.chatty => <>AcqEnded

\* the length prefix and the payload bytes that a finished tx_str or
\* fifo_write_str has written: tx_str writes the prefix and then the bytes;
\* fifo_write_str writes each as the data of a MEM_WR to the FIFO, the fifth
\* write of its five (none at all for no bytes)
StrCall ==
    \/ call.op = "str_loopback" /\ call.env.failAt = 0
    \/ call.op = "fifo_write_str" /\ result.kind = "ok"
PrefixAt == IF call.op = "str_loopback" THEN 1 ELSE 5
PayloadAt == IF call.op = "str_loopback" THEN 2 ELSE 10
PrefixWritten == ReadBE16(WriteSeq[PrefixAt].data)
PayloadWritten ==
    IF Len(WriteSeq) >= PayloadAt THEN Len(WriteSeq[PayloadAt].data) ELSE 0

\* C21: for every string handed to tx_str or fifo_write_str, the 16-bit
\* big-endian length prefix written equals the number of payload bytes
\* written after it, the payload being the bytes of the string, also for a
\* string of 65536 bytes or more.
C21_PrefixIsPayloadLength ==
    StrCall =>
        /\ Len(WriteSeq[PrefixAt].data) = 2
        /\ PayloadWritten = Len(StringOf(call.args.text))
        /\ PrefixWritten = PayloadWritten

\* the same for the strings shorter than 65536 bytes (this holds)
PrefixOfShort ==
    (StrCall /\ call.args.text.pad < 2 ^ 16) =>
        /\ Len(WriteSeq[PrefixAt].data) = 2
        /\ PayloadWritten = Len(StringOf(call.args.text))
        /\ PrefixWritten = PayloadWritten

====
